---- MODULE Spec2Model ----
(***************************************************************************)
(* Model of package bgp (types.go): the in-memory BGP-4 message types      *)
(* OPEN, UPDATE, KEEPALIVE and NOTIFICATION, their constructors, the       *)
(* length functions Len()/len() and Prefix.Size().                         *)
(*                                                                         *)
(* One message is alive at a time (msg).  A caller constructs it, mutates  *)
(* its exported variable-length fields and calls Len() or Size(); the      *)
(* value such a call returns is observed in `last`.                        *)
(***************************************************************************)
EXTENDS Integers, Sequences, FiniteSets

VARIABLES msg, last

vars == <<msg, last>>

----------------------------------------------------------------------------
(* Constants of types.go *)

typeOpen == 1
typeUpdate == 2
typeNotification == 3
typeKeepalive == 4
typeRouteRefresh == 5

headerLen == 19
MaxSize == 4096
Version == 4

FlagOptional == 2^8
FlagTransitive == 2^7
FlagPartial == 2^6
FlagLength == 2^5

Origin == 1
ASPath == 2

(* Bounds of the model *)

\* most elements (parameters, or prefixes and paths together) one message holds
MaxItems == 2
\* longest NOTIFICATION Data a caller supplies
MaxDataLen == 4076
\* length of the long path attribute value
LongValueLen == 300

----------------------------------------------------------------------------
(* Machine integers and byte slices *)

\* conversion of a non-negative int to uint8
uint8(n) == n % 256

RECURSIVE BitAnd(_, _)
\* a & b on non-negative integers
BitAnd(a, b) ==
    IF a = 0 \/ b = 0 THEN 0
    ELSE (a % 2) * (b % 2) + 2 * BitAnd(a \div 2, b \div 2)

RECURSIVE BitOr(_, _)
\* a | b on non-negative integers
BitOr(a, b) ==
    IF a = 0 THEN b
    ELSE IF b = 0 THEN a
    ELSE (IF a % 2 = 1 \/ b % 2 = 1 THEN 1 ELSE 0) + 2 * BitOr(a \div 2, b \div 2)

\* a byte slice of n zero bytes
Zeros(n) == [i \in 1..n |-> 0]

\* s without its i-th element
RemoveAt(s, i) == [j \in 1..(Len(s) - 1) |-> IF j < i THEN s[j] ELSE s[j + 1]]

----------------------------------------------------------------------------
(* net.IPMask and net.IP, as used by Prefix and NewOPEN *)

\* byte i (from 1) of net.CIDRMask(ones, bits)
CIDRMaskByte(ones, i) ==
    LET r == ones - 8 * (i - 1)
    IN  IF r >= 8 THEN 255 ELSE IF r <= 0 THEN 0 ELSE 256 - 2^(8 - r)

CIDRMask(ones, bits) == [i \in 1..(bits \div 8) |-> CIDRMaskByte(ones, i)]

\* ip.Mask(mask) for ip and mask of the same length
IPMaskApply(ip, mask) == [i \in 1..Len(ip) |-> BitAnd(ip[i], mask[i])]

RECURSIVE LeadingOnes(_)
\* the number of iterations of `for v&0x80 != 0 { n++; v <<= 1 }`
LeadingOnes(v) == IF v >= 128 THEN 1 + LeadingOnes((v * 2) % 256) ELSE 0

RECURSIVE ShiftedOut(_)
\* v after that loop
ShiftedOut(v) == IF v >= 128 THEN ShiftedOut((v * 2) % 256) ELSE v

RECURSIVE simpleMaskLengthFrom(_, _)
\* net.simpleMaskLength from byte i on: -1 when the mask is not canonical
simpleMaskLengthFrom(mask, i) ==
    IF i > Len(mask) THEN 0
    ELSE IF mask[i] = 255
         THEN LET rest == simpleMaskLengthFrom(mask, i + 1)
              IN  IF rest = -1 THEN -1 ELSE 8 + rest
         ELSE IF ShiftedOut(mask[i]) # 0 THEN -1
              ELSE IF \E j \in (i + 1)..Len(mask) : mask[j] # 0 THEN -1
                   ELSE LeadingOnes(mask[i])

\* net.IPMask.Size: <<ones, bits>>
IPMask_Size(mask) ==
    LET ones == simpleMaskLengthFrom(mask, 1)
    IN  IF ones = -1 THEN <<0, 0>> ELSE <<ones, Len(mask) * 8>>

\* net.IP.To4: nil is the empty slice
To4(ip) ==
    IF Len(ip) = 4 THEN ip
    ELSE IF /\ Len(ip) = 16
            /\ \A i \in 1..10 : ip[i] = 0
            /\ ip[11] = 255
            /\ ip[12] = 255
         THEN SubSeq(ip, 13, 16)
         ELSE << >>

----------------------------------------------------------------------------
(* Header *)

newHeader(typ) == [Length |-> 0, Type |-> uint8(typ)]

----------------------------------------------------------------------------
(* Prefix *)

\* Prefix.Size
Prefix_Size(p) == IPMask_Size(p.Mask)[2]

\* Prefix.len
Prefix_len(p) == 1 + Len(p.IP)

----------------------------------------------------------------------------
(* Path *)

\* Path.len with the flag test dropped
Path_len_NoFlag(p) == 2 + 1 + Len(p.Value)

\* Path.len
Path_len(p) ==
    IF BitAnd(p.Flags, FlagLength) = FlagLength
    THEN 2 + 2 + Len(p.Value)
    ELSE 2 + 1 + Len(p.Value)

----------------------------------------------------------------------------
(* Parameter *)

\* Parameter.len
Parameter_len(p) == 2 + Len(p.Value)

----------------------------------------------------------------------------
(* Messages *)

NoMessage == [kind |-> "none"]

NewOPEN(MyAS, HoldTime, BGPIdentifier, Parameters) ==
    [kind |-> "OPEN", Header |-> newHeader(typeOpen), Version |-> Version,
     MyAS |-> MyAS, HoldTime |-> HoldTime,
     BGPIdentifier |-> To4(BGPIdentifier), Parameters |-> Parameters]

RECURSIVE SumParameterLen(_, _)
\* l after `for _, p := range m.Parameters { l += p.len() }` from index i
SumParameterLen(ps, i) ==
    IF i > Len(ps) THEN 0 ELSE Parameter_len(ps[i]) + SumParameterLen(ps, i + 1)

\* OPEN.Len returning the length of a message without parameters
OPEN_Len_Stale(m) == headerLen + 10

\* OPEN.Len
OPEN_Len(m) == headerLen + 10 + SumParameterLen(m.Parameters, 1)

NewUPDATE(WithdrawnRoutes, Paths, ReachabilityInfo) ==
    [kind |-> "UPDATE", Header |-> newHeader(typeUpdate),
     withdrawnRoutesLength |-> 0, WithdrawnRoutes |-> WithdrawnRoutes,
     pathsLength |-> 0, Paths |-> Paths,
     ReachabilityInfo |-> ReachabilityInfo]

RECURSIVE SumPrefixLen(_, _)
SumPrefixLen(ps, i) ==
    IF i > Len(ps) THEN 0 ELSE Prefix_len(ps[i]) + SumPrefixLen(ps, i + 1)

RECURSIVE SumPathLen(_, _)
SumPathLen(ps, i) ==
    IF i > Len(ps) THEN 0 ELSE Path_len(ps[i]) + SumPathLen(ps, i + 1)

\* UPDATE.Len
UPDATE_Len(m) ==
    headerLen + 4 + SumPrefixLen(m.WithdrawnRoutes, 1)
                  + SumPathLen(m.Paths, 1)
                  + SumPrefixLen(m.ReachabilityInfo, 1)

NewKEEPALIVE == [kind |-> "KEEPALIVE", Header |-> newHeader(typeKeepalive)]

\* KEEPALIVE.Len
KEEPALIVE_Len(m) == headerLen

\* a NOTIFICATION composite literal (the package has no constructor for it)
MakeNOTIFICATION(ErrorCode, ErrorSubcode, Data) ==
    [kind |-> "NOTIFICATION", Header |-> newHeader(typeNotification),
     ErrorCode |-> ErrorCode, ErrorSubcode |-> ErrorSubcode, Data |-> Data]

\* NOTIFICATION.Len
NOTIFICATION_Len(m) == headerLen + 2 + Len(m.Data)

\* Message.Len, dispatched on the dynamic type
Message_Len(m) ==
    CASE m.kind = "OPEN" -> OPEN_Len(m)
      [] m.kind = "UPDATE" -> UPDATE_Len(m)
      [] m.kind = "KEEPALIVE" -> KEEPALIVE_Len(m)
      [] m.kind = "NOTIFICATION" -> NOTIFICATION_Len(m)

\* the values p.len() returns to Len(), in the order the loops ask for them
ElementLens(m) ==
    CASE m.kind = "OPEN" ->
            [i \in 1..Len(m.Parameters) |-> Parameter_len(m.Parameters[i])]
      [] m.kind = "UPDATE" ->
            [i \in 1..Len(m.WithdrawnRoutes) |-> Prefix_len(m.WithdrawnRoutes[i])]
            \o [i \in 1..Len(m.Paths) |-> Path_len(m.Paths[i])]
            \o [i \in 1..Len(m.ReachabilityInfo) |-> Prefix_len(m.ReachabilityInfo[i])]
      [] OTHER -> << >>

----------------------------------------------------------------------------
(* Values callers pass in *)

\* addresses handed to NewOPEN: 192.0.2.1 as 4 bytes, the same address in
\* 16-byte IPv4-mapped form, 2001:db8::1, and the empty address
IdInputs ==
    { <<192, 0, 2, 1>>,
      Zeros(10) \o <<255, 255, 192, 0, 2, 1>>,
      <<32, 1, 13, 184>> \o Zeros(11) \o <<1>>,
      << >> }

ParamInputs ==
    { [Type |-> 1, Value |-> << >>],
      [Type |-> 2, Value |-> <<1, 4, 0, 1, 0, 1>>],
      [Type |-> 2, Value |-> Zeros(255)] }

PrefixMaskLens == {0, 8, 9, 32}

\* 10.128.0.1/n as net.ParseCIDR returns it: a 4-byte masked address
CIDRPrefix(n) ==
    [IP |-> IPMaskApply(<<10, 128, 0, 1>>, CIDRMask(n, 32)), Mask |-> CIDRMask(n, 32)]

\* the same prefix holding only the address bytes the mask covers
TrimmedPrefix(n) ==
    [IP |-> SubSeq(CIDRPrefix(n).IP, 1, (n + 7) \div 8), Mask |-> CIDRMask(n, 32)]

PrefixInputs ==
    {CIDRPrefix(n) : n \in PrefixMaskLens} \cup {TrimmedPrefix(n) : n \in PrefixMaskLens}

RECURSIVE OrAll(_)
\* the flags of S or-ed together
OrAll(S) ==
    IF S = {} THEN 0
    ELSE LET f == CHOOSE x \in S : TRUE IN BitOr(f, OrAll(S \ {f}))

\* the value Path.Flags holds once the flags of S are stored in it
StoreFlags(S) == uint8(OrAll(S))

PathFlagConstants == {FlagOptional, FlagTransitive, FlagPartial, FlagLength}

\* the flag sets callers ask for
FlagSetInputs == SUBSET PathFlagConstants

\* the code and value of an ORIGIN attribute and of a long AS_PATH attribute
PathBodyInputs ==
    { [Code |-> Origin, Value |-> <<0>>],
      [Code |-> ASPath, Value |-> Zeros(LongValueLen)] }

\* a Path literal carrying the flags of S
MakePath(S, b) == [Flags |-> StoreFlags(S), Code |-> b.Code, Value |-> b.Value]

PathInputs == {MakePath(S, b) : S \in FlagSetInputs, b \in PathBodyInputs}

DataLens == {0, 1, MaxDataLen}

\* the sequences over S of length at most 1
UpToOne(S) == {<< >>} \cup {<<x>> : x \in S}

\* the number of elements an UPDATE holds
Items(m) == Len(m.WithdrawnRoutes) + Len(m.Paths) + Len(m.ReachabilityInfo)

----------------------------------------------------------------------------
(* What the last operation returned *)

NoCall == [op |-> "none"]

----------------------------------------------------------------------------
Init ==
    /\ msg = NoMessage
    /\ last = NoCall

(* Constructors *)

CallNewOPEN ==
    /\ msg = NoMessage
    /\ \E id \in IdInputs, ps \in UpToOne(ParamInputs) :
          msg' = NewOPEN(65001, 180, id, ps)
    /\ last' = NoCall

CallNewUPDATE ==
    /\ msg = NoMessage
    /\ \E w \in UpToOne(PrefixInputs), p \in UpToOne(PathInputs),
          r \in UpToOne(PrefixInputs) :
          /\ Len(w) + Len(p) + Len(r) <= MaxItems
          /\ msg' = NewUPDATE(w, p, r)
    /\ last' = NoCall

CallNewKEEPALIVE ==
    /\ msg = NoMessage
    /\ msg' = NewKEEPALIVE
    /\ last' = NoCall

CallMakeNOTIFICATION ==
    /\ msg = NoMessage
    /\ \E n \in DataLens : msg' = MakeNOTIFICATION(6, 0, Zeros(n))
    /\ last' = NoCall

(* Mutation of the exported variable-length fields *)

AppendParameter ==
    /\ msg.kind = "OPEN"
    /\ Len(msg.Parameters) < MaxItems
    /\ \E p \in ParamInputs :
          msg' = [msg EXCEPT !.Parameters = Append(@, p)]
    /\ last' = NoCall

RemoveParameter ==
    /\ msg.kind = "OPEN"
    /\ \E i \in 1..Len(msg.Parameters) :
          msg' = [msg EXCEPT !.Parameters = RemoveAt(@, i)]
    /\ last' = NoCall

AppendWithdrawn ==
    /\ msg.kind = "UPDATE"
    /\ Items(msg) < MaxItems
    /\ \E p \in PrefixInputs :
          msg' = [msg EXCEPT !.WithdrawnRoutes = Append(@, p)]
    /\ last' = NoCall

RemoveWithdrawn ==
    /\ msg.kind = "UPDATE"
    /\ \E i \in 1..Len(msg.WithdrawnRoutes) :
          msg' = [msg EXCEPT !.WithdrawnRoutes = RemoveAt(@, i)]
    /\ last' = NoCall

AppendPath ==
    /\ msg.kind = "UPDATE"
    /\ Items(msg) < MaxItems
    /\ \E S \in FlagSetInputs, b \in PathBodyInputs :
          /\ msg' = [msg EXCEPT !.Paths = Append(@, MakePath(S, b))]
          /\ last' = [op |-> "AppendPath", flags |-> S]

RemovePath ==
    /\ msg.kind = "UPDATE"
    /\ \E i \in 1..Len(msg.Paths) :
          msg' = [msg EXCEPT !.Paths = RemoveAt(@, i)]
    /\ last' = NoCall

AppendReachability ==
    /\ msg.kind = "UPDATE"
    /\ Items(msg) < MaxItems
    /\ \E p \in PrefixInputs :
          msg' = [msg EXCEPT !.ReachabilityInfo = Append(@, p)]
    /\ last' = NoCall

RemoveReachability ==
    /\ msg.kind = "UPDATE"
    /\ \E i \in 1..Len(msg.ReachabilityInfo) :
          msg' = [msg EXCEPT !.ReachabilityInfo = RemoveAt(@, i)]
    /\ last' = NoCall

SetData ==
    /\ msg.kind = "NOTIFICATION"
    /\ \E n \in DataLens :
          /\ n # Len(msg.Data)
          /\ msg' = [msg EXCEPT !.Data = Zeros(n)]
    /\ last' = NoCall

(* Calls *)

\* m.Len(): no field of m is assigned
CallLen ==
    /\ msg.kind # "none"
    /\ last' = [op |-> "Len", ret |-> Message_Len(msg), lens |-> ElementLens(msg)]
    /\ UNCHANGED msg

\* p.Size() on a prefix of an UPDATE
CallSize ==
    /\ msg.kind = "UPDATE"
    /\ \E p \in {msg.WithdrawnRoutes[i] : i \in 1..Len(msg.WithdrawnRoutes)}
             \cup {msg.ReachabilityInfo[i] : i \in 1..Len(msg.ReachabilityInfo)} :
          last' = [op |-> "Size", arg |-> p, ret |-> Prefix_Size(p)]
    /\ UNCHANGED msg

Next ==
    \/ CallNewOPEN
    \/ CallNewUPDATE
    \/ CallNewKEEPALIVE
    \/ CallMakeNOTIFICATION
    \/ AppendParameter
    \/ RemoveParameter
    \/ AppendWithdrawn
    \/ RemoveWithdrawn
    \/ AppendPath
    \/ RemovePath
    \/ AppendReachability
    \/ RemoveReachability
    \/ SetData
    \/ CallLen
    \/ CallSize

Spec == Init /\ [][Next]_vars

----------------------------------------------------------------------------
(* Wire sizes of RFC 4271, section 4.3, in which the properties are stated *)

\* TRUE iff the single bit f is set in b
BitSet(b, f) == (b \div f) % 2 = 1

\* TRUE iff f is a power of two
RECURSIVE IsSingleBit(_)
IsSingleBit(f) ==
    IF f <= 0 THEN FALSE
    ELSE IF f = 1 THEN TRUE
    ELSE f % 2 = 0 /\ IsSingleBit(f \div 2)

\* the number of leading one bits of the prefix's mask
MaskOnes(p) == IPMask_Size(p.Mask)[1]

\* 1 + ceil(mask_length / 8)
WirePrefixSize(p) == 1 + (MaskOnes(p) + 7) \div 8

\* flags byte + code byte + length field + value
WirePathSize(p) ==
    2 + (IF BitSet(p.Flags, FlagLength) THEN 2 ELSE 1) + Len(p.Value)

RECURSIVE SumSeq(_)
SumSeq(s) == IF s = << >> THEN 0 ELSE Head(s) + SumSeq(Tail(s))

WirePrefixSizes(ps) == SumSeq([i \in 1..Len(ps) |-> WirePrefixSize(ps[i])])

WirePathSizes(ps) == SumSeq([i \in 1..Len(ps) |-> WirePathSize(ps[i])])

ValueBytes(ps) == SumSeq([i \in 1..Len(ps) |-> Len(ps[i].Value)])

LenReturned == last.op = "Len"

----------------------------------------------------------------------------
(* Properties *)

\* C1: the value Len() returns for an UPDATE is the size of its wire
\* encoding: 19 + 4 + the sum over WithdrawnRoutes and ReachabilityInfo of
\* 1 + ceil(mask_length/8) + the sum over Paths of each attribute's size.
C1_UpdateLenIsWireSize ==
    (LenReturned /\ msg.kind = "UPDATE") =>
        last.ret = 19 + 4 + WirePrefixSizes(msg.WithdrawnRoutes)
                          + WirePathSizes(msg.Paths)
                          + WirePrefixSizes(msg.ReachabilityInfo)

\* C2: Prefix.len() is 1 + ceil(mask_length/8) for every prefix, whatever
\* the number of address bytes the prefix stores.
C2_PrefixLenIsCompact ==
    (LenReturned /\ msg.kind = "UPDATE") =>
        \A i \in 1..Len(msg.WithdrawnRoutes) :
            last.lens[i] = WirePrefixSize(msg.WithdrawnRoutes[i])

\* C3: once Len() has been called on an OPEN, UPDATE or KEEPALIVE, the
\* header's Length field holds the value Len() returned.
C3_HeaderLengthSetByLen ==
    (LenReturned /\ msg.kind \in {"OPEN", "UPDATE", "KEEPALIVE"}) =>
        msg.Header.Length = last.ret

\* C4: whatever appends and removals of Parameters came before, OPEN.Len()
\* returns 29 plus, for each current parameter, 2 plus the length of its value.
C4_OpenLenRecomputed ==
    (LenReturned /\ msg.kind = "OPEN") =>
        last.ret = 29 + 2 * Len(msg.Parameters) + ValueBytes(msg.Parameters)

\* C4 witness: Len() called on an OPEN that holds two parameters, the second
\* of them appended after construction.
C4_Witness ==
    /\ LenReturned
    /\ msg.kind = "OPEN"
    /\ Len(msg.Parameters) = 2
    /\ last.ret > 29 + 4

\* C5: withdrawnRoutesLength and pathsLength of an UPDATE equal the summed
\* sizes of the current WithdrawnRoutes and Paths in every state.
C5_LengthFieldsTrackSequences ==
    msg.kind = "UPDATE" =>
        /\ msg.withdrawnRoutesLength = SumPrefixLen(msg.WithdrawnRoutes, 1)
        /\ msg.pathsLength = SumPathLen(msg.Paths, 1)

\* C6: Path.len() is 2 + the width of the length field + the number of value
\* bytes, the width being 2 exactly when the FlagLength bit is set in Flags.
C6_PathLenWidth ==
    (LenReturned /\ msg.kind = "UPDATE") =>
        \A i \in 1..Len(msg.Paths) :
            last.lens[Len(msg.WithdrawnRoutes) + i] = WirePathSize(msg.Paths[i])

\* C6 witness: Len() has asked a path with FlagLength set and a 300-byte value
\* for its size and got 304.
C6_Witness ==
    /\ LenReturned
    /\ msg.kind = "UPDATE"
    /\ \E i \in 1..Len(msg.Paths) :
          /\ BitSet(msg.Paths[i].Flags, FlagLength)
          /\ Len(msg.Paths[i].Value) = 300
          /\ last.lens[Len(msg.WithdrawnRoutes) + i] = 304

\* C7: no value Len() returns exceeds MaxSize.
C7_LenWithinMaxSize == LenReturned => last.ret <= MaxSize

\* C8: the BGPIdentifier of every OPEN built by NewOPEN is 4 bytes long.
C8_IdentifierIsFourBytes ==
    msg.kind = "OPEN" => Len(msg.BGPIdentifier) = 4

\* C9: Prefix.Size() returns the number of leading one bits of the mask.
C9_SizeIsMaskLength ==
    last.op = "Size" => last.ret = MaskOnes(last.arg)

\* C10: the four flag constants are distinct single bits below 256, so that
\* Path.Flags holds every subset of them and each flag can be tested in it.
\* A path appended with a set of flags tests positive for exactly those flags.
C10_FlagsFitInByte ==
    /\ Cardinality(PathFlagConstants) = 4
    /\ last.op = "AppendPath" =>
          /\ \A f \in last.flags : IsSingleBit(f) /\ f < 256
          /\ \A f \in PathFlagConstants :
                (BitAnd(msg.Paths[Len(msg.Paths)].Flags, f) = f) <=> (f \in last.flags)

====
